---- MODULE Spec2Model ----
(***************************************************************************)
(* Model of api/index.py: the image analysis service (Flask handlers       *)
(* analyze_upload, analyze_url, health) and the pipeline behind them:      *)
(* _load_image_from_bytes, _resize_for_metrics, extract_metadata,          *)
(* detect_generator_reasons, the three metrics and analyze_image.          *)
(*                                                                         *)
(* Conventions.                                                            *)
(*  - A Python str is a sequence of characters, each character a one-      *)
(*    character TLA+ string ("middot" stands for U+00B7).                  *)
(*  - A Python value (str, int, None, bytes, tuple, list, dict) is a node  *)
(*    [k, t, s, n, kids]: k is the key under which it sits in its parent   *)
(*    dict (<<>> elsewhere), t its type, s its characters (str, bytes),    *)
(*    n its number (int) or its length (bytes), kids its items.            *)
(*  - A metric is an integer number of thousandths (0.35 is 350); a score  *)
(*    is an integer number of 1/14000 (0.75 is 10500, 0.45 is 6300, 0.6 is *)
(*    8400, 0.15 is 2100), the unit in which every term of the score of    *)
(*    analyze_image is an exact integer.  Binary floating point rounding   *)
(*    is not modelled.                                                     *)
(***************************************************************************)
EXTENDS Integers, Sequences, FiniteSets, TLC

VARIABLES
  req,       \* Spec: the request the server handled last
  resp,      \* Spec: the response it returned
  small,     \* Spec: what _resize_for_metrics returned in that request
  pc,        \* SpecConc: per worker, where its analyze_upload stands
  wdata,     \* SpecConc: per worker, the bytes it read
  wloc,      \* SpecConc: per worker, the locals of its analyze_image
  keywords,  \* SpecConc: the module global GENERATOR_KEYWORDS
  memo,      \* SpecConc: observer, the responses seen so far per input
  lscore,    \* SpecLabel: a final clamped score
  llabel     \* SpecLabel: the label derived from it

vars == <<req, resp, small, pc, wdata, wloc, keywords, memo, lscore, llabel>>

(***************************************************************************)
(* Bounds of the model.                                                    *)
(***************************************************************************)
MaxDim == 4000      \* the largest image side among the sample images
MaxRaw == 2500      \* the largest raw (unclipped) metric value, in thousandths
MaxWorkers == 2     \* concurrent requests in SpecConc

(***************************************************************************)
(* Strings.                                                                *)
(***************************************************************************)
Upper == <<"A","B","C","D","E","F","G","H","I","J","K","L","M",
           "N","O","P","Q","R","S","T","U","V","W","X","Y","Z">>
Lower == <<"a","b","c","d","e","f","g","h","i","j","k","l","m",
           "n","o","p","q","r","s","t","u","v","w","x","y","z">>

\* str.lower() on one character
LowerChar(c) ==
  IF \E i \in 1..26 : Upper[i] = c
  THEN Lower[CHOOSE i \in 1..26 : Upper[i] = c]
  ELSE c

\* str.lower()
lower(s) == [i \in 1..Len(s) |-> LowerChar(s[i])]

\* Python's `kw in t` on strings
Contains(kw, t) ==
  \E i \in 1..(Len(t) - Len(kw) + 1) :
    \A j \in 1..Len(kw) : t[i + j - 1] = kw[j]

Digit(d) == <<"0","1","2","3","4","5","6","7","8","9">>[d + 1]

RECURSIVE IntStr(_)
\* str(n) for an int n >= 0
IntStr(n) == IF n < 10 THEN <<Digit(n)>> ELSE IntStr(n \div 10) \o <<Digit(n % 10)>>

(***************************************************************************)
(* Python values.                                                          *)
(***************************************************************************)
PyStr(k, s)    == [k |-> k, t |-> "str",   s |-> s,    n |-> 0,      kids |-> <<>>]
PyInt(k, n)    == [k |-> k, t |-> "int",   s |-> <<>>, n |-> n,      kids |-> <<>>]
PyNone(k)      == [k |-> k, t |-> "none",  s |-> <<>>, n |-> 0,      kids |-> <<>>]
PyBytes(k, s)  == [k |-> k, t |-> "bytes", s |-> s,    n |-> Len(s), kids |-> <<>>]
PyBlob(k, n)   == [k |-> k, t |-> "bytes", s |-> <<>>, n |-> n,      kids |-> <<>>]
PyTuple(k, xs) == [k |-> k, t |-> "tuple", s |-> <<>>, n |-> 0,      kids |-> xs]
PyList(k, xs)  == [k |-> k, t |-> "list",  s |-> <<>>, n |-> 0,      kids |-> xs]
PyDict(k, xs)  == [k |-> k, t |-> "dict",  s |-> <<>>, n |-> 0,      kids |-> xs]

NoKey == <<>>
WithKey(k, v) == [v EXCEPT !.k = k]

\* d.get(key): the item under key, or None
HasKey(items, key) == \E i \in DOMAIN items : items[i].k = key
Get(items, key) ==
  IF HasKey(items, key)
  THEN items[CHOOSE i \in DOMAIN items : items[i].k = key]
  ELSE PyNone(key)

\* bool(v), for the values the handlers test
Truthy(v) ==
  CASE v.t = "none"  -> FALSE
    [] v.t = "bytes" -> v.n > 0
    [] v.t = "str"   -> v.s # <<>>
    [] v.t = "int"   -> v.n # 0
    [] OTHER         -> v.kids # <<>>

RECURSIVE Repr(_), ReprItems(_)
\* repr(v) of an item of a tuple (str in quotes, int in digits, tuples nested)
Repr(v) ==
  CASE v.t = "str"   -> <<"'">> \o v.s \o <<"'">>
    [] v.t = "int"   -> IntStr(v.n)
    [] v.t = "none"  -> <<"N","o","n","e">>
    [] v.t = "bytes" -> <<"b","'">> \o v.s \o <<"'">>
    [] OTHER         ->
         <<"(">> \o ReprItems(v.kids)
                 \o (IF Len(v.kids) = 1 THEN <<",">> ELSE <<>>) \o <<")">>
ReprItems(xs) ==
  IF xs = <<>> THEN <<>>
  ELSE IF Len(xs) = 1 THEN Repr(xs[1])
  ELSE Repr(xs[1]) \o <<",", " ">> \o ReprItems(Tail(xs))

\* str(v) of a value that is neither a dict nor a list
Str(v) ==
  CASE v.t = "str" -> v.s
    [] OTHER       -> Repr(v)

(***************************************************************************)
(* Generator tag detection.                                                *)
(***************************************************************************)
GENERATOR_KEYWORDS ==
  << <<"s","t","a","b","l","e"," ","d","i","f","f","u","s","i","o","n">>,
     <<"s","t","a","b","i","l","i","t","y",".","a","i">>,
     <<"a","u","t","o","m","a","t","i","c","1","1","1","1">>,
     <<"i","n","v","o","k","e","a","i">>,
     <<"c","o","m","f","y","u","i">>,
     <<"m","i","d","j","o","u","r","n","e","y">>,
     <<"d","a","l","l","-","e">>,
     <<"d","a","l","l","middot","e">>,
     <<"o","p","e","n","a","i">>,
     <<"n","o","v","e","l","a","i">>,
     <<"r","u","n","w","a","y">>,
     <<"f","i","r","e","f","l","y">>,
     <<"l","e","o","n","a","r","d","o">>,
     <<"s","d","x","l">>,
     <<"g","e","n","a","i">>,
     <<"a","i"," ","g","e","n","e","r","a","t","e","d">>,
     <<"c","l","i","p","d","r","o","p">>,
     <<"i","d","e","o","g","r","a","m">>,
     <<"f","l","u","x",".","1">> >>

RECURSIVE collect_cased(_), collect_cased_each(_, _)
\* collect without .lower(): a detector that matches case-sensitively
collect_cased(obj) ==
  IF obj.t = "dict" THEN collect_cased_each(obj.kids, TRUE)
  ELSE IF obj.t = "list" THEN collect_cased_each(obj.kids, FALSE)
  ELSE <<Str(obj)>>
collect_cased_each(items, keyed) ==
  IF items = <<>> THEN <<>>
  ELSE (IF keyed THEN <<Head(items).k>> ELSE <<>>)
       \o collect_cased(Head(items)) \o collect_cased_each(Tail(items), keyed)

RECURSIVE collect(_), collect_each(_, _)
\* the texts that collect(obj) appends, in order
collect(obj) ==
  IF obj.t = "dict" THEN collect_each(obj.kids, TRUE)
  ELSE IF obj.t = "list" THEN collect_each(obj.kids, FALSE)
  ELSE <<lower(Str(obj))>>
\* the loop bodies of collect, over the items of a dict (keyed) or a list
collect_each(items, keyed) ==
  IF items = <<>> THEN <<>>
  ELSE (IF keyed THEN <<lower(Head(items).k)>> ELSE <<>>)
       \o collect(Head(items)) \o collect_each(Tail(items), keyed)

GenPrefix ==
  <<"G","e","n","e","r","a","t","o","r"," ","t","a","g"," ",
    "d","e","t","e","c","t","e","d",":"," ">>

\* f"Generator tag detected: {kw}"
GenReason(kw) == GenPrefix \o kw

\* the loop over the keyword list
match_keywords(kws, texts) ==
  LET found == SelectSeq(kws, LAMBDA kw : \E i \in DOMAIN texts : Contains(kw, texts[i]))
  IN  [i \in 1..Len(found) |-> GenReason(found[i])]

detect_generator_reasons(metadata) ==
  match_keywords(GENERATOR_KEYWORDS, collect(metadata))

(***************************************************************************)
(* Image utilities.  An uploaded byte sequence is described by what the    *)
(* libraries make of it:                                                   *)
(*   kind       "garbage": Image.open raises; "truncated": Image.open      *)
(*              succeeds and the pixel load raises; "image": it decodes    *)
(*   container  the file format Image.open identifies ("JPEG", "PNG")      *)
(*   mode, size the channel mode and (width, height) as stored             *)
(*   info       the entries of Image.info (with "exif" and "icc_profile"   *)
(*              bytes when the file carries them)                          *)
(*   exif_load  what piexif.load(info["exif"]) does: raise, or the IFDs    *)
(*   px_load    what piexif.load(img.tobytes()) does on the raw pixels     *)
(*   edge, lap, ent   the raw statistics of the grayscale grid: mean       *)
(*              absolute difference over the 8x8 boundaries, standard      *)
(*              deviation of the Laplacian (both in thousandths), Shannon  *)
(*              entropy (in thousandths of a bit)                          *)
(***************************************************************************)
Ifd(name, isdict, tags) == [name |-> name, isdict |-> isdict, tags |-> tags]
Tag(id, v) == [id |-> id, v |-> v]

Raises == [raises |-> TRUE, ifds |-> <<>>]
Loads(ifds) == [raises |-> FALSE, ifds |-> ifds]

\* the dict piexif.load returns, given the tags of "0th" and of "Exif"
ExifDict(zeroth, exififd) ==
  << Ifd(<<"0","t","h">>, TRUE, zeroth),
     Ifd(<<"E","x","i","f">>, TRUE, exififd),
     Ifd(<<"G","P","S">>, TRUE, <<>>),
     Ifd(<<"I","n","t","e","r","o","p">>, TRUE, <<>>),
     Ifd(<<"1","s","t">>, TRUE, <<>>),
     Ifd(<<"t","h","u","m","b","n","a","i","l">>, FALSE, <<>>) >>

K_exif == <<"e","x","i","f">>
K_icc_profile == <<"i","c","c","_","p","r","o","f","i","l","e">>
PNG == <<"P","N","G">>
JPEG == <<"J","P","E","G">>

ORIENTATION == 274   \* ExifTags.Base.Orientation, read by ImageOps.exif_transpose

\* Image.open(io.BytesIO(data)): lazy, it identifies the container and reads
\* the header; the image it returns carries the container's format tag
pil_open(data) ==
  [format |-> PyStr(NoKey, data.container), mode |-> data.mode, size |-> data.size,
   info |-> data.info, exif_load |-> data.exif_load, px_load |-> data.px_load]

\* the Orientation tag Image.getexif() finds (1 when there is none)
orientation_of(img) ==
  LET zeroth == IF img.exif_load.raises THEN <<>> ELSE img.exif_load.ifds[1].tags
  IN  IF HasKey(img.info, K_exif)
         /\ \E i \in DOMAIN zeroth : zeroth[i].id = ORIENTATION
      THEN zeroth[CHOOSE i \in DOMAIN zeroth : zeroth[i].id = ORIENTATION].v.n
      ELSE 1

\* ImageOps.exif_transpose(img): the transposed image (orientations 2..8), with
\* the Orientation tag deleted from its EXIF, or else img.copy().  Either is an
\* image the library made itself, and its format attribute is None.
exif_transpose(img) ==
  LET o == orientation_of(img)
      swap == o \in {5, 6, 7, 8}
      drop(tags) == SelectSeq(tags, LAMBDA tg : tg.id # ORIENTATION)
      ifds == img.exif_load.ifds
  IN  IF o \in 2..8
      THEN [format |-> PyNone(NoKey), mode |-> img.mode,
            size |-> IF swap THEN <<img.size[2], img.size[1]>> ELSE img.size,
            info |-> img.info,
            exif_load |-> Loads([i \in DOMAIN ifds |->
                                   IF i = 1 THEN [ifds[1] EXCEPT !.tags = drop(@)]
                                   ELSE ifds[i]]),
            px_load |-> img.px_load]
      ELSE [img EXCEPT !.format = PyNone(NoKey)]

\* _load_image_from_bytes: the image, or the exception raised
load_image_from_bytes(data) ==
  IF data.kind \in {"garbage", "empty"}
  THEN [raised |-> TRUE, exc |-> "UnidentifiedImageError"]
  ELSE IF data.kind = "truncated" THEN [raised |-> TRUE, exc |-> "OSError"]
  ELSE [raised |-> FALSE, exc |-> "", img |-> exif_transpose(pil_open(data))]

max_side == 1024

\* int(round(num / den)) for num >= 0, den > 0: Python rounds halves to even
Round(num, den) ==
  LET q == num \div den
      r == num % den
  IN  IF 2 * r > den THEN q + 1
      ELSE IF 2 * r < den THEN q
      ELSE IF q % 2 = 0 THEN q ELSE q + 1

Max(a, b) == IF a >= b THEN a ELSE b
Min(a, b) == IF a <= b THEN a ELSE b

\* the new_size _resize_for_metrics computes (the size itself when scale = 1.0)
new_size(size) ==
  LET m == Max(size[1], size[2])
  IN  IF max_side < m
      THEN <<Round(size[1] * max_side, m), Round(size[2] * max_side, m)>>
      ELSE size

\* _resize_for_metrics: Image.resize raises ValueError ("height and width must
\* be > 0") for a size with a zero
resize_for_metrics(size) ==
  LET ns == new_size(size)
  IN  IF ns[1] < 1 \/ ns[2] < 1
      THEN [raised |-> TRUE, exc |-> "ValueError", size |-> ns]
      ELSE [raised |-> FALSE, exc |-> "", size |-> ns]

\* _pil_to_nd_gray: a grid of shape (height, width) with values in [0, 1],
\* known here by its raw statistics
pil_to_nd_gray(size, data) ==
  [H |-> size[2], W |-> size[1], edge |-> data.edge, lap |-> data.lap, ent |-> data.ent]

(***************************************************************************)
(* Metadata extraction.                                                    *)
(***************************************************************************)
K_format == <<"f","o","r","m","a","t">>
K_mode == <<"m","o","d","e">>
K_size == <<"s","i","z","e">>
K_width == <<"w","i","d","t","h">>
K_height == <<"h","e","i","g","h","t">>
K_pil_info == <<"p","i","l","_","i","n","f","o">>
K_icc_profile_length == <<"i","c","c","_","p","r","o","f","i","l","e","_","l","e","n","g","t","h">>
K_type == <<"t","y","p","e">>
K_bytes == <<"b","y","t","e","s">>
K_length == <<"l","e","n","g","t","h">>

\* piexif.TAGS[ifd_name][tag_id]["name"], for the tags of the sample images
TAGS ==
  << [ifd |-> <<"0","t","h">>, id |-> 271, name |-> <<"M","a","k","e">>],
     [ifd |-> <<"0","t","h">>, id |-> 274,
      name |-> <<"O","r","i","e","n","t","a","t","i","o","n">>],
     [ifd |-> <<"0","t","h">>, id |-> 305, name |-> <<"S","o","f","t","w","a","r","e">>],
     [ifd |-> <<"E","x","i","f">>, id |-> 37510,
      name |-> <<"U","s","e","r","C","o","m","m","e","n","t">>] >>

\* the tag's name, or str(tag_id) when the lookup raises
tag_name(ifd_name, tag_id) ==
  IF \E i \in DOMAIN TAGS : TAGS[i].ifd = ifd_name /\ TAGS[i].id = tag_id
  THEN TAGS[CHOOSE i \in DOMAIN TAGS : TAGS[i].ifd = ifd_name /\ TAGS[i].id = tag_id].name
  ELSE IntStr(tag_id)

\* value.decode("utf-8", "ignore"): the bytes that are no valid UTF-8 ("xFF"
\* stands for such a byte) are dropped
decode_ignore(s) == SelectSeq(s, LAMBDA c : c # "xFF")

\* the loop over img.info: a bytes value becomes {"type": "bytes", "length": N}
pil_info(info) ==
  [i \in DOMAIN info |->
     IF info[i].t = "bytes"
     THEN PyDict(info[i].k, <<PyStr(K_type, K_bytes), PyInt(K_length, info[i].n)>>)
     ELSE info[i]]

\* readable_ifd of one IFD: tag name -> value, bytes decoded
readable_ifd(ifd) ==
  [i \in DOMAIN ifd.tags |->
     LET tg == ifd.tags[i]
         nm == tag_name(ifd.name, tg.id)
     IN  IF tg.v.t = "bytes" THEN PyStr(nm, decode_ignore(tg.v.s))
         ELSE WithKey(nm, tg.v)]

\* exif_data: the piexif.load of info["exif"] when that is non-empty, else of
\* the raw pixel bytes; {} when the load raises; IFDs that are no dict or
\* yield no entry are left out
exif_data(img) ==
  LET exif_bytes == Get(img.info, K_exif)
      loaded == IF Truthy(exif_bytes) THEN img.exif_load ELSE img.px_load
      dicts == IF loaded.raises THEN <<>>
               ELSE SelectSeq(loaded.ifds, LAMBDA f : f.isdict /\ f.tags # <<>>)
  IN  [i \in DOMAIN dicts |-> PyDict(dicts[i].name, readable_ifd(dicts[i]))]

extract_metadata(img) ==
  LET info == pil_info(img.info)
      icc == Get(img.info, K_icc_profile)
      exif == exif_data(img)
  IN  PyDict(NoKey,
        << WithKey(K_format, img.format),
           PyStr(K_mode, img.mode),
           PyDict(K_size, <<PyInt(K_width, img.size[1]), PyInt(K_height, img.size[2])>>) >>
        \o (IF info # <<>> THEN <<PyDict(K_pil_info, info)>> ELSE <<>>)
        \o (IF Truthy(icc) THEN <<PyInt(K_icc_profile_length, icc.n)>> ELSE <<>>)
        \o (IF exif # <<>> THEN <<PyDict(K_exif, exif)>> ELSE <<>>))

(***************************************************************************)
(* Heuristic metrics, in thousandths.                                      *)
(***************************************************************************)
\* np.clip(val, 0.0, 1.0) left out
NoClip(val) == val

\* np.clip(val, 0.0, 1.0)
Clip(val) == IF val < 0 THEN 0 ELSE IF val > 1000 THEN 1000 ELSE val

compute_blockiness(gray) ==
  IF gray.H < 16 \/ gray.W < 16 THEN 0 ELSE Clip(gray.edge)

compute_noise(gray) == Clip(gray.lap * 2)

compute_entropy(gray) == Clip(gray.ent \div 8)

(***************************************************************************)
(* analyze_image.                                                          *)
(***************************************************************************)
R_NO_EXIF == <<"N","o"," ","E","X","I","F"," ","m","e","t","a","d","a","t","a"," ","p","r","e","s","e","n","t">>
R_LOW_ENTROPY == <<"L","o","w"," ","h","i","s","t","o","g","r","a","m"," ","e","n","t","r","o","p","y">>
R_LOW_NOISE == <<"L","o","w"," ","h","i","g","h","-","f","r","e","q","u","e","n","c","y"," ","n","o","i","s","e">>
R_LOW_BLOCKINESS == <<"V","e","r","y"," ","l","o","w"," ","J","P","E","G"," ","b","l","o","c","k","i","n","e","s","s">>

\* the reasons list: the generator reasons, then the four checks
reasons_of(gen_reasons, has_exif, metrics, format) ==
  gen_reasons
  \o (IF ~has_exif THEN <<R_NO_EXIF>> ELSE <<>>)
  \o (IF metrics.hist_entropy < 350 THEN <<R_LOW_ENTROPY>> ELSE <<>>)
  \o (IF metrics.noise_estimate < 200 THEN <<R_LOW_NOISE>> ELSE <<>>)
  \o (IF metrics.blockiness < 50 /\ ~(format.t = "str" /\ format.s = PNG)
      THEN <<R_LOW_BLOCKINESS>> ELSE <<>>)

\* np.clip(score, 0.0, 1.0), in 1/14000
ClipScore(x) == IF x < 0 THEN 0 ELSE IF x > 14000 THEN 14000 ELSE x

\* the score without its +0.6 for a detected generator
score_without_generator(gen_reasons, has_exif, metrics) ==
  ClipScore((IF ~has_exif THEN 2100 ELSE 0)
            + (350 - Min(metrics.hist_entropy, 350)) * 4
            + (200 - Min(metrics.noise_estimate, 200)) * 7
            + (50 - Min(metrics.blockiness, 50)) * 14)

\* the score, in 1/14000: 0.6 is 8400, 0.15 is 2100, and a thousandth of a
\* metric weighs 0.1/0.35 (4 units), 0.1/0.20 (7 units), 0.05/0.05 (14 units)
score_of(gen_reasons, has_exif, metrics) ==
  ClipScore((IF gen_reasons # <<>> THEN 8400 ELSE 0)
            + (IF ~has_exif THEN 2100 ELSE 0)
            + (350 - Min(metrics.hist_entropy, 350)) * 4
            + (200 - Min(metrics.noise_estimate, 200)) * 7
            + (50 - Min(metrics.blockiness, 50)) * 14)

\* the label with the thresholds compared strictly
label_strict(score) ==
  IF score > 10500 THEN "Likely AI-generated"
  ELSE IF score > 6300 THEN "Possibly AI-generated"
  ELSE "Likely human-captured"

\* the label: 0.75 is 10500, 0.45 is 6300
label_of(score) ==
  IF score >= 10500 THEN "Likely AI-generated"
  ELSE IF score >= 6300 THEN "Possibly AI-generated"
  ELSE "Likely human-captured"

NoMetrics == [blockiness |-> 0, noise_estimate |-> 0, hist_entropy |-> 0]

\* analyze_image(img), data giving the pixel statistics: the result dict, or
\* the exception that _resize_for_metrics raises before anything is computed
analyze_image(img, data) ==
  LET img_small == resize_for_metrics(img.size)
      gray == pil_to_nd_gray(img_small.size, data)
      metadata == extract_metadata(img)
      metrics == [blockiness |-> compute_blockiness(gray),
                  noise_estimate |-> compute_noise(gray),
                  hist_entropy |-> compute_entropy(gray)]
      gen_reasons == detect_generator_reasons(metadata)
      has_exif == Truthy(Get(metadata.kids, K_exif))
      score == score_of(gen_reasons, has_exif, metrics)
  IN  IF img_small.raised
      THEN [raised |-> TRUE, exc |-> img_small.exc, score |-> 0, label |-> "",
            reasons |-> <<>>, metadata |-> PyNone(NoKey), metrics |-> NoMetrics]
      ELSE [raised |-> FALSE, exc |-> "", score |-> score, label |-> label_of(score),
            reasons |-> reasons_of(gen_reasons, has_exif, metrics, img.format),
            metadata |-> metadata, metrics |-> metrics]

(***************************************************************************)
(* The sample inputs.                                                      *)
(***************************************************************************)
InfoCases ==
  << <<>>,
     << PyStr(<<"C","o","m","m","e","n","t">>, <<"M","a","d","e"," ","o","n"," ","R","u","n","W","a","y">>),
        PyTuple(<<"s","w">>, <<PyStr(NoKey, <<"S","D","X","L">>), PyInt(NoKey, 1)>>) >>,
     << PyBlob(K_icc_profile, 560),
        PyBytes(<<"x","m","p">>, <<"m","i","d","j","o","u","r","n","e","y">>),
        PyList(<<"t","a","g","s">>, << PyStr(NoKey, <<"F","l","u","x",".","1">>),
                            PyDict(NoKey, <<PyInt(<<"G","e","n","A","I">>, 1)>>) >>) >> >>

ExifCases ==
  << [present |-> FALSE, exif_load |-> Raises, px_load |-> Raises],
     [present |-> FALSE, exif_load |-> Raises, px_load |-> Loads(ExifDict(<<>>, <<>>))],
     [present |-> FALSE, exif_load |-> Raises,
      px_load |-> Loads(ExifDict(<<Tag(271, PyBytes(NoKey, <<"a","b","c">>))>>, <<>>))],
     [present |-> TRUE, exif_load |-> Raises, px_load |-> Raises],
     [present |-> TRUE, exif_load |-> Loads(ExifDict(<<>>, <<>>)), px_load |-> Raises],
     [present |-> TRUE,
      exif_load |-> Loads(ExifDict(<<Tag(271, PyBytes(NoKey, <<"C","a","n","o","n">>))>>,
                                   <<Tag(37510, PyBytes(NoKey, <<"xFF","D","A","L","L","-","E">>))>>)),
      px_load |-> Raises],
     [present |-> TRUE,
      exif_load |-> Loads(ExifDict(<<Tag(274, PyInt(NoKey, 6))>>, <<>>)),
      px_load |-> Raises],
     [present |-> TRUE,
      exif_load |-> Loads(ExifDict(<<Tag(274, PyInt(NoKey, 6)),
                                     Tag(305, PyBytes(NoKey, <<"M","i","d","j","o","u","r","n","e","y"," ","v","5">>))>>, <<>>)),
      px_load |-> Raises] >>

RGB == <<"R","G","B">>
GRAY == <<"L">>

\* container, mode and size of the sample images
Shapes ==
  << [container |-> JPEG, mode |-> RGB,  size |-> <<1024, 768>>],
     [container |-> PNG,  mode |-> RGB,  size |-> <<1024, 768>>],
     [container |-> JPEG, mode |-> GRAY, size |-> <<8, 8>>],
     [container |-> PNG,  mode |-> GRAY, size |-> <<8, 8>>],
     [container |-> JPEG, mode |-> RGB,  size |-> <<MaxDim, 3000>>],
     [container |-> PNG,  mode |-> RGB,  size |-> <<2048, 1>>],
     [container |-> JPEG, mode |-> RGB,  size |-> <<2048, 3>>],
     [container |-> JPEG, mode |-> GRAY, size |-> <<16, MaxDim>>],
     [container |-> PNG,  mode |-> GRAY, size |-> <<1, MaxDim>>] >>
Edges == {0, 49, 50}
Laps == {0, 99, 100, MaxRaw}
Ents == {0, 2792, 2800, 8 * MaxRaw}

Image(sh, ic, ec, edge, lap, ent) ==
  [kind |-> "image", container |-> Shapes[sh].container, mode |-> Shapes[sh].mode,
   size |-> Shapes[sh].size,
   info |-> InfoCases[ic]
            \o (IF ExifCases[ec].present THEN <<PyBlob(K_exif, 64)>> ELSE <<>>),
   exif_load |-> ExifCases[ec].exif_load, px_load |-> ExifCases[ec].px_load,
   edge |-> edge, lap |-> lap, ent |-> ent]

\* bytes that are no image: empty, undecodable, or cut short
NoImage(kind) ==
  [kind |-> kind, container |-> <<>>, mode |-> <<>>, size |-> <<0, 0>>, info |-> <<>>,
   exif_load |-> Raises, px_load |-> Raises, edge |-> 0, lap |-> 0, ent |-> 0]

NoImages == { NoImage("garbage"), NoImage("truncated"), NoImage("empty") }

(***************************************************************************)
(* Routes.  A response is [status, kind, score, label, reasons, metadata,  *)
(* metrics]; only a "result" carries the last five.  An exception that     *)
(* leaves a handler is Flask's 500 response, kind "unhandled".             *)
(***************************************************************************)
Reply(status, kind) ==
  [status |-> status, kind |-> kind, score |-> 0, label |-> "", reasons |-> <<>>,
   metadata |-> PyNone(NoKey), metrics |-> NoMetrics]

\* jsonify(result)
ResultReply(r) ==
  [status |-> 200, kind |-> "result", score |-> r.score, label |-> r.label,
   reasons |-> r.reasons, metadata |-> r.metadata, metrics |-> r.metrics]

Request(route, has_input, fetch_ok, data) ==
  [route |-> route, has_input |-> has_input, fetch_ok |-> fetch_ok, data |-> data]

NoSmall == [raised |-> FALSE, exc |-> "", size |-> <<0, 0>>]

\* the try around _load_image_from_bytes and the analyze_image after it
load_and_analyze(data, invalid_kind) ==
  LET loaded == load_image_from_bytes(data)
      result == analyze_image(loaded.img, data)
  IN  IF loaded.raised THEN Reply(400, invalid_kind)
      ELSE IF result.raised THEN Reply(500, "unhandled")
      ELSE ResultReply(result)

\* what _resize_for_metrics returned while the request was handled
resized_in(data) ==
  LET loaded == load_image_from_bytes(data)
  IN  IF loaded.raised THEN NoSmall ELSE resize_for_metrics(loaded.img.size)

analyze_upload(rq) ==
  IF ~rq.has_input THEN Reply(400, "missing_file")
  ELSE IF rq.data.kind = "empty" THEN Reply(400, "empty_file")
  ELSE load_and_analyze(rq.data, "invalid_image")

analyze_url(rq) ==
  IF ~rq.has_input THEN Reply(400, "missing_url")
  ELSE IF ~rq.fetch_ok THEN Reply(400, "fetch_failed")
  ELSE load_and_analyze(rq.data, "invalid_image_url")

health == Reply(200, "ok")

(***************************************************************************)
(* Spec: the server handles one request after another.                     *)
(***************************************************************************)
Workers == 1..MaxWorkers

\* the byte sequences uploaded in SpecConc: a plain JPEG, a JPEG whose EXIF
\* names a generator, undecodable bytes, a 2048x1 PNG, an empty file
ConcInputs ==
  << Image(1, 1, 1, 50, 100, 2800),
     Image(1, 1, 8, 0, 0, 0),
     NoImage("garbage"),
     Image(6, 1, 1, 50, 100, 2800),
     NoImage("empty") >>

NoLocals ==
  [img |-> pil_open(NoImage("empty")), metadata |-> PyNone(NoKey),
   metrics |-> NoMetrics, texts |-> <<>>, gen_reasons |-> <<>>]

ConcIdle ==
  /\ pc = [w \in Workers |-> "idle"]
  /\ wdata = [w \in Workers |-> 0]
  /\ wloc = [w \in Workers |-> NoLocals]
  /\ keywords = GENERATOR_KEYWORDS
  /\ memo = [i \in DOMAIN ConcInputs |-> {}]

LabelIdle == lscore = 0 /\ llabel = ""

IdleRequest == Request("none", FALSE, FALSE, NoImage("empty"))

SeqIdle ==
  /\ req = IdleRequest
  /\ resp = Reply(0, "none")
  /\ small = NoSmall

Init == SeqIdle /\ ConcIdle /\ LabelIdle

\* the server is between two requests
Idle == req.route = "none"

\* what a handled request leaves: the request, its response and, for the
\* analyses that got that far, what _resize_for_metrics returned
Handled(rq, rp) ==
  /\ req' = rq
  /\ resp' = rp
  /\ small' = IF rp.kind \in {"result", "unhandled"} THEN resized_in(rq.data) ELSE NoSmall

UploadRequest(has_file, d) == Request("upload", has_file, FALSE, d)
UrlRequest(has_url, fetch_ok, d) == Request("url", has_url, fetch_ok, d)

Health ==
  /\ Idle
  /\ Handled(Request("health", FALSE, FALSE, NoImage("empty")), health)
  /\ UNCHANGED <<pc, wdata, wloc, keywords, memo, lscore, llabel>>

AnalyzeUpload ==
  /\ Idle
  /\ \E rq \in {UploadRequest(FALSE, NoImage("empty"))}
             \cup {UploadRequest(TRUE, d) : d \in NoImages}
             \cup {UploadRequest(TRUE, Image(sh, ic, ec, e, l, n)) :
                     sh \in DOMAIN Shapes, ic \in DOMAIN InfoCases,
                     ec \in DOMAIN ExifCases, e \in Edges, l \in Laps, n \in Ents} :
       Handled(rq, analyze_upload(rq))
  /\ UNCHANGED <<pc, wdata, wloc, keywords, memo, lscore, llabel>>

AnalyzeUrl ==
  /\ Idle
  /\ \E rq \in {UrlRequest(has, FALSE, NoImage("empty")) : has \in BOOLEAN}
             \cup {UrlRequest(TRUE, TRUE, d) : d \in NoImages}
             \cup {UrlRequest(TRUE, TRUE, Image(sh, ic, ec, 0, 0, 0)) :
                     sh \in DOMAIN Shapes, ic \in DOMAIN InfoCases,
                     ec \in DOMAIN ExifCases} :
       Handled(rq, analyze_url(rq))
  /\ UNCHANGED <<pc, wdata, wloc, keywords, memo, lscore, llabel>>

\* the response has been sent and nothing of the request is kept
Answered ==
  /\ req.route # "none"
  /\ req' = IdleRequest
  /\ resp' = Reply(0, "none")
  /\ small' = NoSmall
  /\ UNCHANGED <<pc, wdata, wloc, keywords, memo, lscore, llabel>>

Next == Health \/ AnalyzeUpload \/ AnalyzeUrl \/ Answered

Spec == Init /\ [][Next]_vars

(***************************************************************************)
(* SpecConc: the server handles uploads concurrently, one per worker; the  *)
(* steps of a worker are the calls of analyze_upload and analyze_image.    *)
(* memo observes, per uploaded byte sequence, every response returned.     *)
(***************************************************************************)
Observation(rp) ==
  [status |-> rp.status, kind |-> rp.kind, score |-> rp.score, label |-> rp.label,
   reasons |-> rp.reasons]

\* the worker returns rp for input i: its locals are gone with the call
Return(w, i, rp) ==
  /\ memo' = [memo EXCEPT ![i] = @ \cup {Observation(rp)}]
  /\ pc' = [pc EXCEPT ![w] = "idle"]
  /\ wdata' = [wdata EXCEPT ![w] = 0]
  /\ wloc' = [wloc EXCEPT ![w] = NoLocals]

\* f.read() and the empty-file check
Receive(w) ==
  /\ pc[w] = "idle"
  /\ \E i \in DOMAIN ConcInputs :
       IF ConcInputs[i].kind = "empty"
       THEN Return(w, i, Reply(400, "empty_file"))
       ELSE /\ pc' = [pc EXCEPT ![w] = "read"]
            /\ wdata' = [wdata EXCEPT ![w] = i]
            /\ UNCHANGED <<wloc, memo>>
  /\ UNCHANGED <<req, resp, small, keywords, lscore, llabel>>

\* the try around _load_image_from_bytes
Load(w) ==
  /\ pc[w] = "read"
  /\ LET loaded == load_image_from_bytes(ConcInputs[wdata[w]])
     IN  IF loaded.raised
         THEN Return(w, wdata[w], Reply(400, "invalid_image"))
         ELSE /\ wloc' = [wloc EXCEPT ![w].img = loaded.img]
              /\ pc' = [pc EXCEPT ![w] = "loaded"]
              /\ UNCHANGED <<wdata, memo>>
  /\ UNCHANGED <<req, resp, small, keywords, lscore, llabel>>

\* analyze_image up to the metrics dict
Extract(w) ==
  /\ pc[w] = "loaded"
  /\ LET img == wloc[w].img
         img_small == resize_for_metrics(img.size)
         gray == pil_to_nd_gray(img_small.size, ConcInputs[wdata[w]])
     IN  IF img_small.raised
         THEN Return(w, wdata[w], Reply(500, "unhandled"))
         ELSE /\ wloc' = [wloc EXCEPT
                    ![w].metadata = extract_metadata(img),
                    ![w].metrics = [blockiness |-> compute_blockiness(gray),
                                    noise_estimate |-> compute_noise(gray),
                                    hist_entropy |-> compute_entropy(gray)]]
              /\ pc' = [pc EXCEPT ![w] = "extracted"]
              /\ UNCHANGED <<wdata, memo>>
  /\ UNCHANGED <<req, resp, small, keywords, lscore, llabel>>

\* texts as another running call left it: a list shared between the calls
shared_texts(w) == wloc[CHOOSE o \in Workers : o # w].texts

\* texts: List[str] = [], a local of each call of detect_generator_reasons
fresh_texts(w) == <<>>

\* detect_generator_reasons: collect into texts, then the loop over the
\* module's keyword list
Detect(w) ==
  /\ pc[w] = "extracted"
  /\ LET texts == fresh_texts(w) \o collect(wloc[w].metadata)
     IN  wloc' = [wloc EXCEPT ![w].texts = texts,
                              ![w].gen_reasons = match_keywords(keywords, texts)]
  /\ pc' = [pc EXCEPT ![w] = "detected"]
  /\ UNCHANGED <<req, resp, small, wdata, keywords, memo, lscore, llabel>>

\* the rest of analyze_image, and jsonify(result)
Finish(w) ==
  /\ pc[w] = "detected"
  /\ LET loc == wloc[w]
         has_exif == Truthy(Get(loc.metadata.kids, K_exif))
         score == score_of(loc.gen_reasons, has_exif, loc.metrics)
     IN  Return(w, wdata[w],
                ResultReply([score |-> score, label |-> label_of(score),
                             reasons |-> reasons_of(loc.gen_reasons, has_exif,
                                                    loc.metrics, loc.img.format),
                             metadata |-> loc.metadata, metrics |-> loc.metrics]))
  /\ UNCHANGED <<req, resp, small, keywords, lscore, llabel>>

NextConc ==
  \E w \in Workers : Receive(w) \/ Load(w) \/ Extract(w) \/ Detect(w) \/ Finish(w)

SpecConc == Init /\ [][NextConc]_vars

(***************************************************************************)
(* SpecLabel: the label thresholds of analyze_image applied to a final     *)
(* clamped score, any score of [0, 1] in steps of 0.005 and the scores     *)
(* next to the two thresholds.                                             *)
(***************************************************************************)
Scores == {k * 70 : k \in 0..200} \cup {6299, 6301, 10499, 10501}

Score == llabel = "" /\ lscore' \in Scores /\ llabel' = "scored"
         /\ UNCHANGED <<req, resp, small, pc, wdata, wloc, keywords, memo>>

Classify == llabel = "scored" /\ llabel' = label_of(lscore) /\ lscore' = lscore
            /\ UNCHANGED <<req, resp, small, pc, wdata, wloc, keywords, memo>>

NextLabel == Score \/ Classify

SpecLabel == Init /\ [][NextLabel]_vars

(***************************************************************************)
(* Properties.                                                             *)
(***************************************************************************)
IsResult == resp.kind = "result"

HasReason(r) == \E i \in DOMAIN resp.reasons : resp.reasons[i] = r

IsGenReason(r) == Len(r) >= Len(GenPrefix) /\ SubSeq(r, 1, Len(GenPrefix)) = GenPrefix

HasGenReason == \E i \in DOMAIN resp.reasons : IsGenReason(resp.reasons[i])

\* the image of the request, as uploaded
Uploaded == req.data

\* the bytes of the request reached _load_image_from_bytes
Submitted ==
  \/ req.route = "upload" /\ req.has_input /\ req.data.kind # "empty"
  \/ req.route = "url" /\ req.has_input /\ req.fetch_ok

\* two characters equal up to case
SameLetter(a, b) ==
  a = b \/ \E i \in 1..26 : (a = Upper[i] /\ b = Lower[i]) \/ (a = Lower[i] /\ b = Upper[i])

\* kw occurs in the string t, case-insensitively
OccursInText(kw, t) ==
  \E i \in 1..(Len(t) - Len(kw) + 1) :
    \A j \in 1..Len(kw) : SameLetter(t[i + j - 1], kw[j])

RECURSIVE Occurs(_, _)
\* kw occurs in a key or a value of v, at any depth
Occurs(kw, v) ==
  CASE v.t = "dict"  -> \E i \in DOMAIN v.kids :
                          OccursInText(kw, v.kids[i].k) \/ Occurs(kw, v.kids[i])
    [] v.t \in {"list", "tuple"} -> \E i \in DOMAIN v.kids : Occurs(kw, v.kids[i])
    [] v.t = "int"   -> OccursInText(kw, IntStr(v.n))
    [] v.t = "none"  -> OccursInText(kw, <<"N","o","n","e">>)
    [] OTHER         -> OccursInText(kw, v.s)

\* the generator reasons a metadata record calls for, in keyword-list order
ExpectedGenReasons(metadata) ==
  LET found == SelectSeq(GENERATOR_KEYWORDS, LAMBDA kw : Occurs(kw, metadata))
  IN  [i \in 1..Len(found) |-> GenPrefix \o found[i]]

\* the reasons after the generator reasons
FixedReasons ==
  SelectSeq(resp.reasons, LAMBDA r : ~IsGenReason(r))

\* the metadata record of the response has a key "exif"
ExifKey == HasKey(resp.metadata.kids, K_exif)

KW_MIDJOURNEY == GENERATOR_KEYWORDS[6]
KW_RUNWAY == GENERATOR_KEYWORDS[11]

\* C1: in every result the score is within [0, 1] (0..14000) and each of the
\* three metrics is within [0, 1] (0..1000)
C1_ScoreAndMetricsInUnitInterval ==
  IsResult =>
    /\ resp.score \in 0..14000
    /\ resp.metrics.blockiness \in 0..1000
    /\ resp.metrics.noise_estimate \in 0..1000
    /\ resp.metrics.hist_entropy \in 0..1000

\* a result for an image whose raw noise and entropy values exceed 1.0, and
\* one with a generator reason
C1_Witness ==
  /\ IsResult
  /\ Uploaded.lap * 2 > 1000 /\ Uploaded.ent \div 8 > 1000
  /\ resp.metrics.noise_estimate = 1000 /\ resp.metrics.hist_entropy = 1000
  /\ HasGenReason /\ ~ExifKey

\* C2: the label is decided by the final score alone: >= 0.75 "Likely
\* AI-generated", >= 0.45 and < 0.75 "Possibly AI-generated", < 0.45 "Likely
\* human-captured", the two thresholds falling in the upper category
C2_LabelThresholds ==
  llabel \notin {"", "scored"} =>
    /\ lscore >= 10500 => llabel = "Likely AI-generated"
    /\ (lscore >= 6300 /\ lscore < 10500) => llabel = "Possibly AI-generated"
    /\ lscore < 6300 => llabel = "Likely human-captured"

\* the score 0.45 exactly, labelled
C2_Witness == lscore = 6300 /\ llabel = "Possibly AI-generated"

\* C3: bytes handed to the load step yield a result or the invalid-image
\* error, never another, unhandled error
C3_OnlyInvalidImageError ==
  Submitted => resp.kind \in {"result", "invalid_image", "invalid_image_url"}

\* C4: the generator reasons of a result are exactly one per keyword that
\* occurs, case-insensitively, in a key or value of the metadata record at any
\* depth, in the order of GENERATOR_KEYWORDS, ahead of every other reason
C4_GeneratorReasons ==
  IsResult =>
    LET expected == ExpectedGenReasons(resp.metadata)
    IN  /\ Len(resp.reasons) >= Len(expected)
        /\ SubSeq(resp.reasons, 1, Len(expected)) = expected
        /\ \A i \in (Len(expected) + 1)..Len(resp.reasons) : ~IsGenReason(resp.reasons[i])

\* "RunWay" sits in pil_info, ahead of the "Midjourney" of the EXIF block, and
\* the reasons name midjourney first
C4_Witness ==
  /\ IsResult
  /\ Len(resp.reasons) >= 2
  /\ resp.reasons[1] = GenPrefix \o KW_MIDJOURNEY
  /\ resp.reasons[2] = GenPrefix \o KW_RUNWAY

\* C5: the reasons are the generator reasons, then "No EXIF metadata present"
\* iff there is no exif mapping, "Low histogram entropy" iff hist_entropy <
\* 0.35, "Low high-frequency noise" iff noise_estimate < 0.20, "Very low JPEG
\* blockiness" iff blockiness < 0.05 and the container format is not PNG
C5_ReasonsInFixedOrder ==
  IsResult =>
    FixedReasons =
      (IF ~ExifKey THEN <<R_NO_EXIF>> ELSE <<>>)
      \o (IF resp.metrics.hist_entropy < 350 THEN <<R_LOW_ENTROPY>> ELSE <<>>)
      \o (IF resp.metrics.noise_estimate < 200 THEN <<R_LOW_NOISE>> ELSE <<>>)
      \o (IF resp.metrics.blockiness < 50 /\ Uploaded.container # PNG
          THEN <<R_LOW_BLOCKINESS>> ELSE <<>>)

\* the part of the score that is not the blockiness term
ScoreBesidesBlockiness ==
  (IF HasGenReason THEN 8400 ELSE 0)
  + (IF ~ExifKey THEN 2100 ELSE 0)
  + (350 - Min(resp.metrics.hist_entropy, 350)) * 4
  + (200 - Min(resp.metrics.noise_estimate, 200)) * 7

\* C6: with blockiness < 0.05 the blockiness term is in the score for every
\* container, and "Very low JPEG blockiness" is left out exactly for an image
\* that came from a PNG container
C6_PngSuppressesBlockinessReason ==
  (IsResult /\ resp.metrics.blockiness < 50) =>
    /\ resp.score = ScoreBesidesBlockiness + (50 - resp.metrics.blockiness) * 14
    /\ HasReason(R_LOW_BLOCKINESS) <=> Uploaded.container # PNG

\* the image has no EXIF block, or one piexif cannot load, or one with no tag
NoReadableExif ==
  \/ ~HasKey(Uploaded.info, K_exif)
  \/ Uploaded.exif_load.raises
  \/ \A i \in DOMAIN Uploaded.exif_load.ifds :
       ~Uploaded.exif_load.ifds[i].isdict \/ Uploaded.exif_load.ifds[i].tags = <<>>

\* the part of the score that is not the EXIF term
ScoreBesidesExif ==
  (IF HasGenReason THEN 8400 ELSE 0)
  + (350 - Min(resp.metrics.hist_entropy, 350)) * 4
  + (200 - Min(resp.metrics.noise_estimate, 200)) * 7
  + (50 - Min(resp.metrics.blockiness, 50)) * 14

\* C7: an image with no EXIF block, a corrupt one or one without a readable
\* tag gets no exif key, the reason "No EXIF metadata present" and +0.15; an
\* exif key is never empty nor holds an empty IFD; the reason and the +0.15
\* are absent exactly when there is an exif key
C7_ExifAbsenceIsASignal ==
  IsResult =>
    /\ NoReadableExif => ~ExifKey
    /\ ExifKey =>
         LET exif == Get(resp.metadata.kids, K_exif)
         IN  exif.kids # <<>> /\ \A i \in DOMAIN exif.kids : exif.kids[i].kids # <<>>
    /\ HasReason(R_NO_EXIF) <=> ~ExifKey
    /\ resp.score = ScoreBesidesExif + (IF ExifKey THEN 0 ELSE 2100)

\* the size of the image handed to analyze_image (orientation applied)
LoadedSize == load_image_from_bytes(Uploaded).img.size

\* n is num/den rounded to a nearest integer
Nearest(n, num, den) == 2 * (n * den - num) <= den /\ 2 * (num - n * den) <= den

\* C9: for an image of at least 1x1, _resize_for_metrics returns a grid whose
\* longer side is at most 1024 and whose sides are both at least 1, each side
\* the original times 1024 / max(w, h) rounded to the nearest integer; an
\* image within 1024 keeps its size
C9_ResizedGridNotEmpty ==
  (Submitted /\ resp.kind \in {"result", "unhandled"}) =>
    LET m == Max(LoadedSize[1], LoadedSize[2])
    IN  /\ ~small.raised
        /\ small.size[1] >= 1 /\ small.size[2] >= 1
        /\ Max(small.size[1], small.size[2]) <= 1024
        /\ m <= 1024 => small.size = LoadedSize
        /\ m > 1024 => /\ Nearest(small.size[1], LoadedSize[1] * 1024, m)
                       /\ Nearest(small.size[2], LoadedSize[2] * 1024, m)

\* C10: with a generator reason the score is at least 0.60 and the label is
\* not "Likely human-captured"; without one the score is at most 0.40 and the
\* label is "Likely human-captured"
C10_LabelGatedByGenerator ==
  IsResult =>
    IF HasGenReason
    THEN resp.score >= 8400 /\ resp.label # "Likely human-captured"
    ELSE resp.score <= 5600 /\ resp.label = "Likely human-captured"

\* a generator reason and nothing else: the score is 0.60, "Possibly"
C10_Witness ==
  /\ IsResult /\ HasGenReason
  /\ resp.score = 8400 /\ resp.label = "Possibly AI-generated"

\* C8: every response observed for one byte sequence is the same response
\* (score, label, reasons in order), whatever ran before or beside it, and
\* the keyword list is as the module defines it
C8_Deterministic ==
  /\ \A i \in DOMAIN memo : Cardinality(memo[i]) <= 1
  /\ keywords = GENERATOR_KEYWORDS

\* the plain image and the generator-tagged image have both been answered
\* while another analysis is under way
C8_Witness ==
  /\ memo[1] # {} /\ memo[2] # {}
  /\ \E o \in memo[2] : o.reasons # <<>> /\ o.reasons[1] = GenPrefix \o KW_MIDJOURNEY
  /\ \E w \in Workers : pc[w] = "detected"

====
